---- MODULE Spec2Model ----
\* A model of BoundsTree (src/src/bounds_tree.rs): an arena-based binary
\* bounding-volume hierarchy that assigns each inserted rectangle an order
\* one larger than the largest order of the earlier rectangles it intersects.
\*
\* Arena indices are 1-based here (Rust: 0-based); root = NoRoot models None.
\* Coordinates are small integers, on which the f32 arithmetic of the source
\* (min, max, subtraction, addition, comparison) is exact.
EXTENDS Integers, Sequences, FiniteSets, TLC

\* ---------------------------------------------------------------- bounds
MaxInserts == 4
MaxX == 2
MaxY == 2

\* ---------------------------------------------------------------- values
NoRoot == 0

Max2(a, b) == IF a >= b THEN a ELSE b
Min2(a, b) == IF a <= b THEN a ELSE b

Point(x, y) == [x |-> x, y |-> y]
MkBounds(x0, y0, x1, y1) == [min |-> Point(x0, y0), max |-> Point(x1, y1)]

\* The input rectangles: min <= max on both axes, on the integer grid
\* (0..MaxX) x (0..MaxY). The width may be zero (min.x = max.x); the height is
\* positive, which keeps the set small; the code treats the axes alike.
AllBounds ==
    { MkBounds(q[1], q[2], q[3], q[4]) :
        q \in { q \in (0..MaxX) \X (0..MaxY) \X (0..MaxX) \X (0..MaxY) :
                  q[1] <= q[3] /\ q[2] < q[4] } }

\* Bounds::merge
merge(a, b) ==
    [min |-> Point(Min2(a.min.x, b.min.x), Min2(a.min.y, b.min.y)),
     max |-> Point(Max2(a.max.x, b.max.x), Max2(a.max.y, b.max.y))]

\* Mutant of intersects: the closed-edge test of Aabb::intersects in lib.rs,
\* under which rectangles that only touch intersect.
intersects_closed(a, b) ==
    ~(a.min.x > b.max.x
        \/ a.max.x < b.min.x
        \/ a.min.y > b.max.y
        \/ a.max.y < b.min.y)

\* Bounds::intersects
intersects(a, b) ==
    ~(a.min.x >= b.max.x
        \/ a.max.x <= b.min.x
        \/ a.min.y >= b.max.y
        \/ a.max.y <= b.min.y)

\* Bounds::half_perimeter
half_perimeter(a) ==
    LET width == a.max.x - a.min.x
        height == a.max.y - a.min.y
    IN width + height

\* ---------------------------------------------------------------- nodes
\* enum Node: one record shape for both variants; the fields a variant does
\* not have are 0.
Leaf(bounds, data, order) ==
    [kind |-> "Leaf", bounds |-> bounds, data |-> data, order |-> order,
     left |-> 0, right |-> 0, max_ordering |-> 0]

Internal(left, right, bounds, max_ordering) ==
    [kind |-> "Internal", bounds |-> bounds, data |-> 0, order |-> 0,
     left |-> left, right |-> right, max_ordering |-> max_ordering]

\* Node::max_ordering
node_max_ordering(n) == IF n.kind = "Leaf" THEN n.order ELSE n.max_ordering

\* An index the arena can be indexed with (node / node_mut panic otherwise).
ValidIndex(ns, i) == i \in 1..Len(ns)

\* Mutant of push_leaf: the index returned is the arena's length in the code's
\* 0-based count (`self.nodes.len()`), one past the new leaf.
push_leaf_index_past(ns, bounds, data, order) ==
    LET ns1 == Append(ns, Leaf(bounds, data, order))
    IN [nodes |-> ns1, index |-> Len(ns1) + 1]

\* BoundsTree::push_leaf: the arena after the push and the index returned
\* (`self.nodes.len() - 1`, here 1-based).
push_leaf(ns, bounds, data, order) ==
    LET ns1 == Append(ns, Leaf(bounds, data, order))
    IN [nodes |-> ns1, index |-> Len(ns1)]

\* Mutant of push_internal: the children are stored the other way round.
push_internal_swapped(ns, left, right) ==
    LET left_node == ns[left]
        right_node == ns[right]
        new_bounds == merge(left_node.bounds, right_node.bounds)
        max_ordering == Max2(node_max_ordering(left_node), node_max_ordering(right_node))
        ns1 == Append(ns, Internal(right, left, new_bounds, max_ordering))
    IN [nodes |-> ns1, index |-> Len(ns1)]

\* BoundsTree::push_internal
push_internal(ns, left, right) ==
    LET left_node == ns[left]
        right_node == ns[right]
        new_bounds == merge(left_node.bounds, right_node.bounds)
        max_ordering == Max2(node_max_ordering(left_node), node_max_ordering(right_node))
        ns1 == Append(ns, Internal(left, right, new_bounds, max_ordering))
    IN [nodes |-> ns1, index |-> Len(ns1)]

\* Mutant of collect_leaf: the leaf's order replaces the running maximum
\* instead of being folded into it.
collect_leaf_no_max(n, bounds, max_ordering) ==
    IF intersects(bounds, n.bounds)
    THEN n.order
    ELSE max_ordering

\* collect_max_ordering, the Leaf arm
collect_leaf(n, bounds, max_ordering) ==
    IF intersects(bounds, n.bounds)
    THEN Max2(n.order, max_ordering)
    ELSE max_ordering

\* Mutant of collect_recurses: the comparison of the pruning test is reversed.
collect_recurses_reversed(n, bounds, max_ordering) ==
    intersects(bounds, n.bounds) /\ n.max_ordering < max_ordering

\* collect_max_ordering, the test of the Internal arm: recurse into the
\* children, or skip the subtree
collect_recurses(n, bounds, max_ordering) ==
    intersects(bounds, n.bounds) /\ max_ordering < n.max_ordering

\* Mutant of collect_combine: the right child's result is returned alone.
collect_combine_right_only(left_max_ordering, right_max_ordering) ==
    right_max_ordering

\* collect_max_ordering, line 158: the children's results are combined.
collect_combine(left_max_ordering, right_max_ordering) ==
    Max2(left_max_ordering, right_max_ordering)

\* BoundsTree::collect_max_ordering
RECURSIVE collect_max_ordering(_, _, _, _)
collect_max_ordering(ns, index, bounds, max_ordering) ==
    LET n == ns[index] IN
    IF n.kind = "Leaf"
    THEN collect_leaf(n, bounds, max_ordering)
    ELSE IF collect_recurses(n, bounds, max_ordering)
         THEN LET left_max_ordering == collect_max_ordering(ns, n.left, bounds, max_ordering)
                  right_max_ordering == collect_max_ordering(ns, n.right, bounds, max_ordering)
              IN collect_combine(left_max_ordering, right_max_ordering)
         ELSE max_ordering

\* ---------------------------------------------------------------- insert
\* The descent loop of BoundsTree::insert (the `while let Node::Internal`).
\* Each turn widens the visited node, pushes it on the path stack, folds the
\* not-chosen child's intersecting orders into the running maximum and moves to
\* the chosen child. status: "leaf" when the loop exits at a Leaf, "index" when
\* node()/node_mut() would index outside the arena, "loop" when the walk has
\* visited more nodes than the arena holds: it is at a node it has widened
\* before, takes the same turn again and never exits.
\* Mutant of widen: the visited node's bounds are overwritten by the new bounds
\* instead of merged with them.
widen_overwrites(node_bounds, new_bounds) == new_bounds

\* Mutant of widen: the visited node keeps its bounds.
widen_skipped(node_bounds, new_bounds) == node_bounds

\* insert, line 39: the visited node's bounds are widened by the new bounds.
widen(node_bounds, new_bounds) == merge(node_bounds, new_bounds)

\* Mutant of descends_left: ties go to the left child.
descends_left_on_ties(left_cost, right_cost) == left_cost <= right_cost

\* insert, line 48: the descent goes left iff the left cost is strictly smaller.
descends_left(left_cost, right_cost) == left_cost < right_cost

RECURSIVE descend(_, _, _, _, _, _, _)
descend(ns, index, stk, max_intersecting_ordering, new_bounds, trace, fuel) ==
    IF ~ValidIndex(ns, index)
    THEN [status |-> "index", nodes |-> ns, index |-> index, stack |-> stk,
          max_intersecting_ordering |-> max_intersecting_ordering, trace |-> trace]
    ELSE IF ns[index].kind # "Internal"
    THEN [status |-> "leaf", nodes |-> ns, index |-> index, stack |-> stk,
          max_intersecting_ordering |-> max_intersecting_ordering, trace |-> trace]
    ELSE IF fuel = 0
    THEN [status |-> "loop", nodes |-> ns, index |-> index, stack |-> stk,
          max_intersecting_ordering |-> max_intersecting_ordering, trace |-> trace]
    ELSE
        LET left == ns[index].left
            right == ns[index].right
            ns1 == [ns EXCEPT ![index].bounds = widen(@, new_bounds)]
            stk1 == Append(stk, index)
        IN IF ~ValidIndex(ns1, left) \/ ~ValidIndex(ns1, right)
           THEN [status |-> "index", nodes |-> ns1, index |-> index, stack |-> stk1,
                 max_intersecting_ordering |-> max_intersecting_ordering, trace |-> trace]
           ELSE
            LET left_cost == half_perimeter(merge(new_bounds, ns1[left].bounds))
                right_cost == half_perimeter(merge(new_bounds, ns1[right].bounds))
                goLeft == descends_left(left_cost, right_cost)
                other == IF goLeft THEN right ELSE left
                chosen == IF goLeft THEN left ELSE right
                m1 == collect_max_ordering(ns1, other, new_bounds, max_intersecting_ordering)
                step == [node |-> index, left |-> left, right |-> right,
                         left_cost |-> left_cost, right_cost |-> right_cost,
                         chosen |-> chosen, collected |-> other,
                         before |-> max_intersecting_ordering, after |-> m1]
            IN descend(ns1, chosen, stk1, m1, new_bounds, Append(trace, step), fuel - 1)

\* The final fix-up loop of insert (`for node_index in self.stack.drain(..)`):
\* raises max_ordering of every node on the path stack.
\* Mutant of raise: the fix-up pass leaves max_ordering as it was.
raise_skipped(max_ordering, ordering) == max_ordering

\* insert, line 100: max_ordering is raised to at least the new order.
raise(max_ordering, ordering) == Max2(max_ordering, ordering)

RECURSIVE raise_path(_, _, _)
raise_path(ns, stk, ordering) ==
    IF stk = <<>> THEN ns
    ELSE raise_path([ns EXCEPT ![Head(stk)].max_ordering = raise(@, ordering)],
                    Tail(stk), ordering)

\* Every index on the path stack names an Internal node of the arena (else the
\* fix-up loop reaches unreachable!() or indexes outside the arena).
PathIsInternal(ns, stk) ==
    \A k \in 1..Len(stk) : ValidIndex(ns, stk[k]) /\ ns[stk[k]].kind = "Internal"

\* Mutant of splice: the right child reference is overwritten whichever side
\* sibling is on.
splice_always_right(ns, old_parent, sibling, new_parent) ==
    [ns EXCEPT ![old_parent].right = new_parent]

\* The splice of insert: the old parent's reference to sibling becomes new_parent.
splice(ns, old_parent, sibling, new_parent) ==
    IF ns[old_parent].left = sibling
    THEN [ns EXCEPT ![old_parent].left = new_parent]
    ELSE [ns EXCEPT ![old_parent].right = new_parent]

\* What the path stack holds when insert returns.
drain(stk) == <<>>

\* Mutant of fold_sibling: the located leaf is never checked.
fold_sibling_skipped(sibling_node, new_bounds, max_intersecting_ordering) ==
    max_intersecting_ordering

\* insert, lines 72-74: the located leaf's order is folded into the running
\* maximum when its bounds intersect the new bounds.
fold_sibling(sibling_node, new_bounds, max_intersecting_ordering) ==
    IF intersects(sibling_node.bounds, new_bounds)
    THEN Max2(max_intersecting_ordering, sibling_node.order)
    ELSE max_intersecting_ordering

\* Mutant of next_ordering: the running maximum itself is the new order.
next_ordering_same(max_intersecting_ordering) == max_intersecting_ordering

\* insert, line 76: the new order is one above the running maximum.
next_ordering(max_intersecting_ordering) == max_intersecting_ordering + 1

NoDescent ==
    [path |-> <<>>, sibling |-> 0, new_node |-> 0, new_parent |-> 0,
     trace |-> <<>>, parent_has_sibling |-> TRUE]

\* Mutant of insert_first: the first leaf gets order 0, the running maximum's
\* initial value, and 0 is returned.
insert_first_order_zero(ns, stk, new_bounds, data) ==
    LET l == push_leaf(ns, new_bounds, data, 0)
    IN [panicked |-> FALSE, root |-> l.index, nodes |-> l.nodes, stack |-> stk,
        ordering |-> 0, descent |-> "empty",
        did |-> [NoDescent EXCEPT !.new_node = l.index]]

\* insert on an empty tree (lines 21-25)
insert_first(ns, stk, new_bounds, data) ==
    LET l == push_leaf(ns, new_bounds, data, 1)
    IN [panicked |-> FALSE, root |-> l.index, nodes |-> l.nodes, stack |-> stk,
        ordering |-> 1, descent |-> "empty",
        did |-> [NoDescent EXCEPT !.new_node = l.index]]

\* BoundsTree::insert as a function of the tree (root, nodes, stack) and its
\* arguments. panicked: an unreachable!() arm or an out-of-arena index was hit
\* (or the descent never exits); root, nodes and stack are then those at entry.
\* did: what the call did, for the properties that speak of its steps.
insert(rt, ns, stk, new_bounds, data) ==
    IF rt = NoRoot
    THEN insert_first(ns, stk, new_bounds, data)
    ELSE
        LET d == descend(ns, rt, stk, 0, new_bounds, <<>>, Len(ns) + 1)
            failed == [panicked |-> TRUE, root |-> rt, nodes |-> ns, stack |-> stk,
                       ordering |-> 0, descent |-> d.status,
                       did |-> [NoDescent EXCEPT !.path = d.stack, !.sibling = d.index,
                                                 !.trace = d.trace,
                                                 !.parent_has_sibling = FALSE]]
        IN IF d.status # "leaf" THEN failed
           ELSE
            LET sibling == d.index
                ordering == next_ordering(fold_sibling(d.nodes[sibling], new_bounds,
                                                       d.max_intersecting_ordering))
                l == push_leaf(d.nodes, new_bounds, data, ordering)
                new_node == l.index
            IN IF ~ValidIndex(l.nodes, new_node) THEN failed
               ELSE
                LET p == push_internal(l.nodes, sibling, new_node)
                    new_parent == p.index
                    has_parent == d.stack # <<>>
                    old_parent == d.stack[Len(d.stack)]
                IN IF ~PathIsInternal(p.nodes, d.stack) \/ ~ValidIndex(p.nodes, new_parent)
                   THEN failed
                   ELSE
                    LET ns3 == IF has_parent
                               THEN splice(p.nodes, old_parent, sibling, new_parent)
                               ELSE p.nodes
                        rt1 == IF has_parent THEN rt ELSE new_parent
                    IN [panicked |-> FALSE, root |-> rt1,
                        nodes |-> raise_path(ns3, d.stack, ordering),
                        stack |-> drain(d.stack),
                        ordering |-> ordering, descent |-> d.status,
                        did |-> [path |-> d.stack, sibling |-> sibling,
                                 new_node |-> new_node, new_parent |-> new_parent,
                                 trace |-> d.trace,
                                 parent_has_sibling |->
                                    (has_parent =>
                                        (p.nodes[old_parent].left = sibling
                                            \/ p.nodes[old_parent].right = sibling))]]

\* ---------------------------------------------------------------- iter
\* 2^n
RECURSIVE Pow2(_)
Pow2(n) == IF n = 0 THEN 1 ELSE 2 * Pow2(n - 1)

\* Mutant of push_children: only the left child is pushed.
push_children_left_only(stk, n) == stk \o <<n.left>>

\* iter, lines 125-126: an Internal node's children are pushed, left first.
push_children(stk, n) == stk \o <<n.left, n.right>>

\* One call of the closure in BoundsTree::iter: pop until a Leaf is popped.
\* status "some": item is the Primitive yielded; "none": the stack ran empty;
\* "index": a popped index lies outside the arena (node() panics); "loop": the
\* pops allowed (fuel) are used up. A walk over an acyclic arena of n nodes
\* with two children each pops fewer than 2^n nodes, so with that much fuel
\* "loop" means the traversal never ends.
RECURSIVE iter_next(_, _, _)
iter_next(ns, stk, fuel) ==
    IF stk = <<>> THEN [status |-> "none", item |-> 0, stack |-> stk, fuel |-> fuel]
    ELSE IF fuel = 0 THEN [status |-> "loop", item |-> 0, stack |-> stk, fuel |-> fuel]
    ELSE
        LET node_ix == stk[Len(stk)]
            rest == SubSeq(stk, 1, Len(stk) - 1)
        IN IF ~ValidIndex(ns, node_ix)
           THEN [status |-> "index", item |-> 0, stack |-> rest, fuel |-> fuel]
           ELSE IF ns[node_ix].kind = "Leaf"
           THEN [status |-> "some",
                 item |-> [data |-> ns[node_ix].data, bounds |-> ns[node_ix].bounds,
                           order |-> ns[node_ix].order],
                 stack |-> rest, fuel |-> fuel - 1]
           ELSE iter_next(ns, push_children(rest, ns[node_ix]), fuel - 1)

\* iter().collect(): the items of a whole traversal, in the order yielded.
RECURSIVE iter_collect(_, _, _, _)
iter_collect(ns, stk, out, fuel) ==
    LET r == iter_next(ns, stk, fuel) IN
    IF r.status = "some"
    THEN iter_collect(ns, r.stack, Append(out, r.item), r.fuel)
    ELSE [status |-> r.status, items |-> out]

\* BoundsTree::iter, collected
iter(rt, ns) ==
    iter_collect(ns, IF rt = NoRoot THEN <<>> ELSE <<rt>>, <<>>, Pow2(Len(ns)))

\* ---------------------------------------------------------------- AabbTree
\* AabbTree (src/src/lib.rs): the same hierarchy without orders; insert appends
\* to a vector the keys of the stored boxes the new box intersects.

\* Aabb::merge
aabb_merge(a, b) ==
    [min |-> Point(Min2(a.min.x, b.min.x), Min2(a.min.y, b.min.y)),
     max |-> Point(Max2(a.max.x, b.max.x), Max2(a.max.y, b.max.y))]

\* Aabb::intersects: closed edges, boxes that only touch intersect.
aabb_intersects(a, b) ==
    ~(a.min.x > b.max.x
        \/ a.max.x < b.min.x
        \/ a.min.y > b.max.y
        \/ a.max.y < b.min.y)

\* Aabb::half_perimeter
aabb_half_perimeter(a) ==
    LET width == a.max.x - a.min.x
        height == a.max.y - a.min.y
    IN width + height

\* lib.rs enum Node, one record shape for both variants.
AabbLeaf(aabb, data) ==
    [kind |-> "Leaf", aabb |-> aabb, data |-> data, left |-> 0, right |-> 0]

AabbInternal(left, right, aabb) ==
    [kind |-> "Internal", aabb |-> aabb, data |-> 0, left |-> left, right |-> right]

\* AabbTree::push_leaf
aabb_push_leaf(ns, aabb, data) ==
    LET ns1 == Append(ns, AabbLeaf(aabb, data))
    IN [nodes |-> ns1, index |-> Len(ns1)]

\* AabbTree::push_internal
aabb_push_internal(ns, left, right) ==
    LET new_aabb == aabb_merge(ns[left].aabb, ns[right].aabb)
        ns1 == Append(ns, AabbInternal(left, right, new_aabb))
    IN [nodes |-> ns1, index |-> Len(ns1)]

\* Mutant of collect_intersections_leaf: the leaf is tested with the open-edge
\* test of Bounds::intersects, under which touching boxes do not intersect.
collect_intersections_leaf_open(n, aabb, intersections) ==
    IF intersects(aabb, n.aabb)
    THEN Append(intersections, n.data)
    ELSE intersections

\* collect_intersections, the Leaf arm
collect_intersections_leaf(n, aabb, intersections) ==
    IF aabb_intersects(aabb, n.aabb)
    THEN Append(intersections, n.data)
    ELSE intersections

\* AabbTree::collect_intersections: the vector after the call.
RECURSIVE collect_intersections(_, _, _, _)
collect_intersections(ns, index, aabb, intersections) ==
    LET n == ns[index] IN
    IF n.kind = "Leaf"
    THEN collect_intersections_leaf(n, aabb, intersections)
    ELSE IF aabb_intersects(aabb, n.aabb)
         THEN collect_intersections(ns, n.right, aabb,
                  collect_intersections(ns, n.left, aabb, intersections))
         ELSE intersections

\* The descent loop of AabbTree::insert.
RECURSIVE aabb_descend(_, _, _, _, _)
aabb_descend(ns, index, old_parent, new_aabb, intersections) ==
    IF ns[index].kind # "Internal"
    THEN [nodes |-> ns, index |-> index, old_parent |-> old_parent,
          intersections |-> intersections]
    ELSE
        LET left == ns[index].left
            right == ns[index].right
            ns1 == [ns EXCEPT ![index].aabb = aabb_merge(@, new_aabb)]
            left_cost == aabb_half_perimeter(aabb_merge(new_aabb, ns1[left].aabb))
            right_cost == aabb_half_perimeter(aabb_merge(new_aabb, ns1[right].aabb))
        IN IF left_cost < right_cost
           THEN aabb_descend(ns1, left, index, new_aabb,
                    collect_intersections(ns1, right, new_aabb, intersections))
           ELSE aabb_descend(ns1, right, index, new_aabb,
                    collect_intersections(ns1, left, new_aabb, intersections))

\* AabbTree::insert: the tree and the vector after the call. old_parent = 0
\* models None.
aabb_insert(rt, ns, new_aabb, key, intersections) ==
    LET l == aabb_push_leaf(ns, new_aabb, key)
        new_node == l.index
    IN IF rt = NoRoot
       THEN [root |-> new_node, nodes |-> l.nodes, intersections |-> intersections]
       ELSE
        LET d == aabb_descend(l.nodes, rt, 0, new_aabb, intersections)
            sibling == d.index
            found == IF aabb_intersects(d.nodes[sibling].aabb, new_aabb)
                     THEN Append(d.intersections, d.nodes[sibling].data)
                     ELSE d.intersections
            p == aabb_push_internal(d.nodes, sibling, new_node)
            new_parent == p.index
        IN IF d.old_parent # 0
           THEN [root |-> rt,
                 nodes |-> IF p.nodes[d.old_parent].left = sibling
                           THEN [p.nodes EXCEPT ![d.old_parent].left = new_parent]
                           ELSE [p.nodes EXCEPT ![d.old_parent].right = new_parent],
                 intersections |-> found]
           ELSE [root |-> new_parent, nodes |-> p.nodes, intersections |-> found]

\* ---------------------------------------------------------------- state
VARIABLES
    root,       \* BoundsTree.root (NoRoot = None)
    nodes,      \* BoundsTree.nodes, the arena
    stack,      \* BoundsTree.stack, the path stack
    panicked,   \* an insert or a traversal has panicked or failed to return
    inserted,   \* the insert calls so far: <<bounds, data, returned order>>
    last,       \* what the latest insert did (its path, sibling, new nodes)
    yielded,    \* the items of the latest traversal of the current tree
    iterated,   \* a traversal of the current tree has been collected
    aabb_root,      \* AabbTree.root (NoRoot = None)
    aabb_nodes,     \* AabbTree.nodes
    aabb_inserted   \* the AabbTree::insert calls so far: the box, the key and
                    \* the keys the call appended to the intersections vector

bounds_vars == <<root, nodes, stack, panicked, inserted, last, yielded, iterated>>
aabb_vars == <<aabb_root, aabb_nodes, aabb_inserted>>
vars == <<bounds_vars, aabb_vars>>

NoInsert == [panicked |-> FALSE, ordering |-> 0, descent |-> "none", did |-> NoDescent]

\* BoundsTree::new
Init ==
    /\ root = NoRoot
    /\ nodes = <<>>
    /\ stack = <<>>
    /\ panicked = FALSE
    /\ inserted = <<>>
    /\ last = NoInsert
    /\ yielded = <<>>
    /\ iterated = FALSE
    /\ aabb_root = NoRoot
    /\ aabb_nodes = <<>>
    /\ aabb_inserted = <<>>

\* tree.insert(bounds, quad_id): the payload is the call's sequence number, as
\* in test_random_iterations.
InsertFrom(choices) ==
    /\ ~panicked
    /\ Len(inserted) < MaxInserts
    /\ \E new_bounds \in choices :
       \E quad_id \in {Len(inserted)} :
       \E r \in {insert(root, nodes, stack, new_bounds, quad_id)} :
            /\ root' = r.root
            /\ nodes' = r.nodes
            /\ stack' = r.stack
            /\ panicked' = r.panicked
            /\ last' = [panicked |-> r.panicked, ordering |-> r.ordering,
                        descent |-> r.descent, did |-> r.did]
            /\ inserted' =
                 IF r.panicked THEN inserted
                 ELSE Append(inserted,
                        [data |-> quad_id, bounds |-> new_bounds, order |-> r.ordering])
            /\ yielded' = <<>>
            /\ iterated' = FALSE
    /\ UNCHANGED aabb_vars

Insert == InsertFrom(AllBounds)

\* tree.iter().collect()
Iter ==
    /\ ~panicked
    /\ ~iterated
    /\ \E r \in {iter(root, nodes)} :
          /\ yielded' = r.items
          /\ panicked' = (r.status # "none")
          /\ iterated' = TRUE
    /\ UNCHANGED <<root, nodes, stack, inserted, last>>
    /\ UNCHANGED aabb_vars

Next == Insert \/ Iter

Spec == Init /\ [][Next]_vars

\* The input rectangles of positive width and height.
WideBounds == { b \in AllBounds : b.min.x < b.max.x }

\* Inserts of rectangles of positive area only: the trees are fewer, so that a
\* property can be checked for every query on every one of them.
InsertWide == InsertFrom(WideBounds)

NextWide == InsertWide

SpecWide == Init /\ [][NextWide]_vars

\* tree.insert(aabb, key, &mut actual_intersections) on an AabbTree: the key is
\* the call's sequence number and the vector is cleared before the call, as in
\* the test_random_iterations of lib.rs.
AabbInsert ==
    /\ Len(aabb_inserted) < MaxInserts
    /\ \E new_aabb \in AllBounds :
       \E key \in {Len(aabb_inserted)} :
       \E r \in {aabb_insert(aabb_root, aabb_nodes, new_aabb, key, <<>>)} :
            /\ aabb_root' = r.root
            /\ aabb_nodes' = r.nodes
            /\ aabb_inserted' =
                 Append(aabb_inserted,
                        [aabb |-> new_aabb, key |-> key,
                         intersections |-> r.intersections])
    /\ UNCHANGED bounds_vars

NextAabb == AabbInsert

SpecAabb == Init /\ [][NextAabb]_vars

\* ---------------------------------------------------------------- helpers
\* The largest member of a finite set of naturals, 0 when it is empty.
SetMax(S) == IF S = {} THEN 0 ELSE CHOOSE m \in S : \A k \in S : k <= m

LeafIndices == { i \in 1..Len(nodes) : nodes[i].kind = "Leaf" }
InternalIndices == { i \in 1..Len(nodes) : nodes[i].kind = "Internal" }

\* The arena indices the walk from index i meets (i included), following at
\* most `fuel` child references.
RECURSIVE Below(_, _)
Below(i, fuel) ==
    IF ~ValidIndex(nodes, i) THEN {}
    ELSE IF nodes[i].kind = "Leaf" \/ fuel = 0 THEN {i}
    ELSE {i} \cup Below(nodes[i].left, fuel - 1) \cup Below(nodes[i].right, fuel - 1)

Reachable == IF root = NoRoot THEN {} ELSE Below(root, Len(nodes))

\* The orders of the earlier calls whose bounds intersect those of call i.
EarlierIntersectingOrders(i) ==
    { inserted[j].order : j \in { k \in 1..(i - 1) :
        intersects(inserted[k].bounds, inserted[i].bounds) } }

\* ---------------------------------------------------------------- C1
\* C1: the order each insert returned is 1 + the largest order returned for an
\* earlier shape whose bounds intersect its bounds (0 when there is none).
OrderMatchesBruteForce ==
    \A i \in 1..Len(inserted) :
        inserted[i].order = 1 + SetMax(EarlierIntersectingOrders(i))

\* C1 witness: the fourth insert went through two internal nodes, the subtree
\* it did not choose at the root raised the running maximum, and the order
\* returned is larger than that (the later steps raised it again).
OrderFromNotChosenSubtree ==
    /\ Len(inserted) = 4
    /\ Len(last.did.trace) = 2
    /\ last.did.trace[1].after > last.did.trace[1].before
    /\ last.ordering > last.did.trace[1].after + 1

\* ---------------------------------------------------------------- C2
\* C2: of two leaves of the tree whose bounds intersect, the one inserted later
\* (at the higher arena index) has the strictly larger order; so two leaves of
\* equal order do not intersect.
OrderingInvariant ==
    \A a \in LeafIndices : \A b \in LeafIndices :
        /\ (a < b /\ intersects(nodes[a].bounds, nodes[b].bounds))
                => nodes[b].order > nodes[a].order
        /\ (a # b /\ nodes[a].order = nodes[b].order)
                => ~intersects(nodes[a].bounds, nodes[b].bounds)

\* C2 witness: the tree holds two leaves that intersect and two leaves of equal
\* order.
IntersectingAndEqualOrderLeaves ==
    /\ \E a \in LeafIndices : \E b \in LeafIndices :
          a < b /\ intersects(nodes[a].bounds, nodes[b].bounds)
    /\ \E a \in LeafIndices : \E b \in LeafIndices :
          a # b /\ nodes[a].order = nodes[b].order /\ nodes[a].order > 1

\* ---------------------------------------------------------------- C3
\* How many entries of seq equal x.
Count(seq, x) == Cardinality({ k \in 1..Len(seq) : seq[k] = x })

\* C3: a traversal of a tree built by n inserts ends and yields n items, which
\* as a multiset are the n (bounds, payload, returned order) of the inserts.
IterYieldsInserted ==
    iterated =>
        /\ ~panicked
        /\ Len(yielded) = Len(inserted)
        /\ \A k \in 1..Len(inserted) :
              Count(yielded, inserted[k]) = 1 /\ Count(inserted, inserted[k]) = 1

\* C3 witness: a traversal of four shapes came out in another order than they
\* were inserted in, with two shapes of the same bounds among them.
IterOfFourOutOfOrder ==
    /\ iterated
    /\ Len(inserted) = 4
    /\ Len(yielded) = 4
    /\ yielded # inserted
    /\ \E i \in 1..4 : \E j \in 1..4 : i # j /\ inserted[i].bounds = inserted[j].bounds

\* ---------------------------------------------------------------- C4
\* C4: every internal node reachable from the root has exactly the merge of its
\* two children's bounds.
TightBounds ==
    \A i \in Reachable :
        nodes[i].kind = "Internal" =>
            nodes[i].bounds = merge(nodes[nodes[i].left].bounds, nodes[nodes[i].right].bounds)

\* The merge of the bounds of the first n inserted shapes (n >= 1).
RECURSIVE MergeOfFirst(_)
MergeOfFirst(n) ==
    IF n = 1 THEN inserted[1].bounds
    ELSE merge(MergeOfFirst(n - 1), inserted[n].bounds)

\* C4 witness: the fourth insert descended through two internal nodes and both
\* were widened: the new bounds lay outside the merge of the earlier three.
DescentWidenedTwoNodes ==
    /\ Len(inserted) = 4
    /\ Len(last.did.path) = 2
    /\ MergeOfFirst(3) # MergeOfFirst(4)
    /\ nodes[root].bounds = MergeOfFirst(4)
    /\ merge(nodes[last.did.path[2]].bounds, inserted[4].bounds)
            = nodes[last.did.path[2]].bounds
    /\ nodes[last.did.path[2]].bounds # nodes[root].bounds

\* ---------------------------------------------------------------- C5
\* The orders of the leaves in the subtree of node i.
SubtreeOrders(i) ==
    { nodes[k].order : k \in { j \in Below(i, Len(nodes)) : nodes[j].kind = "Leaf" } }

\* C5: every internal node's max_ordering is the largest order of the leaves in
\* its subtree; the root's is the largest order assigned so far.
MaxOrderingExact ==
    /\ \A i \in InternalIndices : nodes[i].max_ordering = SetMax(SubtreeOrders(i))
    /\ root # NoRoot =>
          node_max_ordering(nodes[root])
              = SetMax({ inserted[k].order : k \in 1..Len(inserted) })

\* C5 witness: the fourth insert returned an order above every earlier one, and
\* the two internal nodes on its path carry it.
FixUpRaisedPath ==
    /\ Len(inserted) = 4
    /\ Len(last.did.path) = 2
    /\ \A k \in 1..3 : inserted[k].order < last.ordering
    /\ \A k \in 1..2 : nodes[last.did.path[k]].max_ordering = last.ordering
    /\ last.ordering = 3

\* ---------------------------------------------------------------- C6
\* The number of paths from node `from` down to node `target`, following at
\* most `fuel` child references.
RECURSIVE PathCount(_, _, _)
PathCount(from, target, fuel) ==
    IF ~ValidIndex(nodes, from) THEN 0
    ELSE (IF from = target THEN 1 ELSE 0)
         + (IF nodes[from].kind = "Internal" /\ fuel > 0
            THEN PathCount(nodes[from].left, target, fuel - 1)
                 + PathCount(nodes[from].right, target, fuel - 1)
            ELSE 0)

\* C6: after n >= 1 inserts the arena is a full binary tree: n leaves, n - 1
\* internal nodes, each with two distinct valid children, and every arena node
\* on exactly one path from the root.
FullBinaryTree ==
    Len(inserted) >= 1 =>
        /\ Cardinality(LeafIndices) = Len(inserted)
        /\ Cardinality(InternalIndices) = Len(inserted) - 1
        /\ ValidIndex(nodes, root)
        /\ \A i \in InternalIndices :
              /\ ValidIndex(nodes, nodes[i].left)
              /\ ValidIndex(nodes, nodes[i].right)
              /\ nodes[i].left # nodes[i].right
        /\ \A i \in 1..Len(nodes) : PathCount(root, i, Len(nodes)) = 1

\* C6 witness: a four-leaf tree whose last insert put the new internal node in
\* the place of a left child, below a node that is itself a right child.
SplicedIntoLeftSide ==
    /\ Len(inserted) = 4
    /\ Len(last.did.path) = 2
    /\ nodes[last.did.path[1]].right = last.did.path[2]
    /\ nodes[last.did.path[2]].left = last.did.new_parent
    /\ nodes[last.did.new_parent].left = last.did.sibling

\* ---------------------------------------------------------------- C7
\* C7: a new tree has no root and an empty arena and its traversal yields
\* nothing; after the first insert the arena is one leaf of order 1 holding the
\* inserted bounds and payload, that leaf is the root, and 1 was returned.
NewThenFirstInsert ==
    /\ Len(inserted) = 0 =>
          /\ root = NoRoot
          /\ nodes = <<>>
          /\ ~panicked
          /\ iterated => yielded = <<>>
    /\ Len(inserted) = 1 =>
          /\ nodes = <<Leaf(inserted[1].bounds, inserted[1].data, 1)>>
          /\ root = 1
          /\ inserted[1].order = 1
          /\ InternalIndices = {}

\* C7 witness: one shape has been inserted and the tree traversed.
FirstInsertDone ==
    /\ Len(inserted) = 1
    /\ iterated
    /\ yielded = inserted

\* ---------------------------------------------------------------- C8
\* The closed rectangles have a point in common.
ClosedMeet(a, b) ==
    /\ a.min.x <= b.max.x /\ b.min.x <= a.max.x
    /\ a.min.y <= b.max.y /\ b.min.y <= a.max.y

\* The rectangles meet only along a side or at a corner: one ends on some axis
\* exactly where the other begins.
Touches(a, b) ==
    /\ ClosedMeet(a, b)
    /\ \/ a.max.x = b.min.x \/ b.max.x = a.min.x
       \/ a.max.y = b.min.y \/ b.max.y = a.min.y

\* The orders of the earlier calls whose rectangle meets that of call i in more
\* than a side or a corner.
EarlierOverlappingOrders(i) ==
    { inserted[j].order : j \in { k \in 1..(i - 1) :
        /\ ClosedMeet(inserted[k].bounds, inserted[i].bounds)
        /\ ~Touches(inserted[k].bounds, inserted[i].bounds) } }

\* C8: earlier rectangles that only touch the new one do not count: the order
\* returned is 1 + the largest order among the earlier rectangles that meet it
\* in more than a side or a corner, so 1 when every earlier rectangle is apart
\* from it or only touches it; [0,0]-[1,1] then [1,0]-[2,1] (the spec's
\* [0,0]-[10,10], [10,0]-[20,10] in units of 10) return 1 and 1.
TouchingDoesNotCount ==
    /\ \A i \in 1..Len(inserted) :
          inserted[i].order = 1 + SetMax(EarlierOverlappingOrders(i))
    /\ (/\ Len(inserted) >= 2
        /\ inserted[1].bounds = MkBounds(0, 0, 1, 1)
        /\ inserted[2].bounds = MkBounds(1, 0, 2, 1))
          => inserted[1].order = 1 /\ inserted[2].order = 1

\* C8 witness: after the two adjacent rectangles of the example, a fourth
\* insert of order 1 touched both the leaf it was paired with and a leaf of the
\* subtree it did not descend into.
TouchedSiblingAndNotChosen ==
    /\ Len(inserted) = 4
    /\ inserted[1].bounds = MkBounds(0, 0, 1, 1)
    /\ inserted[2].bounds = MkBounds(1, 0, 2, 1)
    /\ last.ordering = 1
    /\ Len(last.did.trace) >= 1
    /\ Touches(nodes[last.did.sibling].bounds, inserted[4].bounds)
    /\ \E k \in 1..Len(last.did.trace) :
          \E j \in Below(last.did.trace[k].collected, Len(nodes)) :
              nodes[j].kind = "Leaf" /\ Touches(nodes[j].bounds, inserted[4].bounds)

\* ---------------------------------------------------------------- C9
\* The length of the longest chain of calls, in insertion order and ending at
\* call i, in which each rectangle intersects the next.
RECURSIVE LongestChain(_)
LongestChain(i) ==
    1 + SetMax({ LongestChain(j) : j \in { k \in 1..(i - 1) :
                    intersects(inserted[k].bounds, inserted[i].bounds) } })

\* C9: the order returned for a shape is the length of the longest overlap
\* chain ending at it; a second shape overlapping the first gets 2; A, B, C with
\* B overlapping A and C, and C not intersecting A, get 1, 2, 3 (on the grid:
\* A = [0,0]-[1,1], B = [0,0]-[2,2], C = [1,1]-[2,2]).
OrderIsLongestChain ==
    /\ \A i \in 1..Len(inserted) : inserted[i].order = LongestChain(i)
    /\ (Len(inserted) >= 2 /\ intersects(inserted[1].bounds, inserted[2].bounds))
          => inserted[2].order = 2
    /\ (/\ Len(inserted) >= 3
        /\ inserted[1].bounds = MkBounds(0, 0, 1, 1)
        /\ inserted[2].bounds = MkBounds(0, 0, 2, 2)
        /\ inserted[3].bounds = MkBounds(1, 1, 2, 2))
          => /\ inserted[1].order = 1
             /\ inserted[2].order = 2
             /\ inserted[3].order = 3

\* C9 witness: the three-shape chain has been inserted, C not intersecting A,
\* and a fourth shape has extended the chain to order 4, the descent having
\* collected an order of the chain from a subtree it did not choose.
ChainOfFour ==
    /\ Len(inserted) = 4
    /\ inserted[1].bounds = MkBounds(0, 0, 1, 1)
    /\ inserted[2].bounds = MkBounds(0, 0, 2, 2)
    /\ inserted[3].bounds = MkBounds(1, 1, 2, 2)
    /\ ~intersects(inserted[1].bounds, inserted[3].bounds)
    /\ inserted[4].order = 4
    /\ \E k \in 1..Len(last.did.trace) : last.did.trace[k].after >= 2

\* ---------------------------------------------------------------- C10
\* C10: no insert panics or fails to return: the descent ends at a Leaf, the
\* last node of the path stack (when there is one) is an Internal node that had
\* the located leaf as a child and now has the new internal node in its place,
\* every node of the path stack is Internal, and the stack is left empty.
InsertIsTotal ==
    /\ ~panicked
    /\ last.descent \in {"none", "empty", "leaf"}
    /\ stack = <<>>
    /\ last.descent = "leaf" =>
          /\ nodes[last.did.sibling].kind = "Leaf"
          /\ last.did.parent_has_sibling
          /\ \A k \in 1..Len(last.did.path) :
                /\ ValidIndex(nodes, last.did.path[k])
                /\ nodes[last.did.path[k]].kind = "Internal"
          /\ last.did.path # <<>> =>
                LET old_parent == nodes[last.did.path[Len(last.did.path)]]
                IN (old_parent.left = last.did.new_parent)
                       # (old_parent.right = last.did.new_parent)

\* C10 witness: a fourth insert has descended through two internal nodes to a
\* leaf and returned, and the tree has then been traversed.
DeepInsertReturned ==
    /\ Len(inserted) = 4
    /\ last.descent = "leaf"
    /\ Len(last.did.path) = 2
    /\ iterated
    /\ ~panicked

\* ---------------------------------------------------------------- C11
\* Rectangle a contains rectangle b.
Contains(a, b) ==
    /\ a.min.x <= b.min.x /\ a.min.y <= b.min.y
    /\ a.max.x >= b.max.x /\ a.max.y >= b.max.y

\* What an insert may do to the nodes the arena held before it: a leaf and an
\* internal node off the descent path stay as they were; an internal node on
\* the path stays Internal, its bounds contain the old ones and its
\* max_ordering is not lowered; no index goes away.
InsertFrameStep ==
    nodes' # nodes =>
        /\ Len(nodes') > Len(nodes)
        /\ \A i \in 1..Len(nodes) :
              IF nodes[i].kind = "Leaf"
              THEN nodes'[i] = nodes[i]
              ELSE IF \A k \in 1..Len(last'.did.path) : last'.did.path[k] # i
              THEN nodes'[i] = nodes[i]
              ELSE /\ nodes'[i].kind = "Internal"
                   /\ Contains(nodes'[i].bounds, nodes[i].bounds)
                   /\ nodes'[i].max_ordering >= nodes[i].max_ordering

\* C11: every insert leaves the earlier leaves and the internal nodes off its
\* descent path unchanged at their indices and only widens the internal nodes
\* on the path; no arena index is removed or reused.
InsertFrame == [][InsertFrameStep]_vars

\* C11 witness: the fourth insert went through the root only, widened it and
\* raised its max_ordering, while an older internal node lay off the path.
WidenedRootBesideUntouchedNode ==
    /\ Len(inserted) = 4
    /\ Len(last.did.path) = 1
    /\ MergeOfFirst(3) # MergeOfFirst(4)
    /\ \A k \in 1..3 : inserted[k].order < last.ordering
    /\ \E i \in InternalIndices : i < last.did.new_node /\ i # last.did.path[1]

\* ---------------------------------------------------------------- C12
\* The keys of the earlier AabbTree calls whose box intersects that of call i.
EarlierIntersectingKeys(i) ==
    { aabb_inserted[j].key : j \in { k \in 1..(i - 1) :
        aabb_intersects(aabb_inserted[i].aabb, aabb_inserted[k].aabb) } }

\* C12: the keys an AabbTree insert appends are the keys of the earlier boxes
\* that intersect the new box under Aabb::intersects (touching counts), each
\* once, and never the new key.
IntersectionsMatchBruteForce ==
    \A i \in 1..Len(aabb_inserted) :
        LET got == aabb_inserted[i].intersections
        IN /\ { got[k] : k \in 1..Len(got) } = EarlierIntersectingKeys(i)
           /\ Len(got) = Cardinality(EarlierIntersectingKeys(i))
           /\ \A k \in 1..Len(got) : got[k] # aabb_inserted[i].key

\* C12 witness: the fourth box intersected two of the three earlier boxes, one
\* of them only by touching it, and not the third.
FoundTouchingAndOverlappingBoxes ==
    /\ Len(aabb_inserted) = 4
    /\ Len(aabb_inserted[4].intersections) = 2
    /\ \E j \in 1..3 :
          /\ Touches(aabb_inserted[j].aabb, aabb_inserted[4].aabb)
          /\ \E k \in 1..2 : aabb_inserted[4].intersections[k] = aabb_inserted[j].key
    /\ \E j \in 1..3 :
          /\ intersects(aabb_inserted[j].aabb, aabb_inserted[4].aabb)
          /\ \E k \in 1..2 : aabb_inserted[4].intersections[k] = aabb_inserted[j].key

\* ---------------------------------------------------------------- C13
\* The orders of the leaves in the subtree of node i whose bounds intersect b.
IntersectingSubtreeOrders(i, b) ==
    { nodes[k].order : k \in { j \in Below(i, Len(nodes)) :
        nodes[j].kind = "Leaf" /\ intersects(nodes[j].bounds, b) } }

\* C13: on every tree built by inserts, for every node, rectangle b and
\* running maximum m, collect_max_ordering returns the larger of m and the
\* largest order of a leaf below the node that intersects b: the subtrees it
\* skips would not have changed the result.
CollectEqualsExhaustiveScan ==
    \A index \in 1..Len(nodes) : \A b \in AllBounds : \A m \in 0..MaxInserts :
        collect_max_ordering(nodes, index, b, m)
            = Max2(m, SetMax(IntersectingSubtreeOrders(index, b)))

\* C13 witness: a tree with an internal node below the root and a query that
\* skips it on the max_ordering test although one of its leaves intersects
\* the rectangle, and a query that skips it on the bounds test.
CollectSkipsSubtree ==
    \E index \in InternalIndices :
        /\ index # root
        /\ \E b \in AllBounds : \E m \in 1..MaxInserts :
              /\ intersects(b, nodes[index].bounds)
              /\ m = nodes[index].max_ordering
              /\ IntersectingSubtreeOrders(index, b) # {}
              /\ ~collect_recurses(nodes[index], b, m)
              /\ collect_max_ordering(nodes, index, b, m) = m
              /\ collect_max_ordering(nodes, index, b, 0) = m
        /\ \E b \in AllBounds :
              /\ ~intersects(b, nodes[index].bounds)
              /\ collect_max_ordering(nodes, index, b, 0) = 0

\* ---------------------------------------------------------------- C14
\* The cost insert compares at a visited node for the child at index c: the
\* half perimeter of the merge of the new bounds with the child's bounds. (A
\* chosen child widened later in the descent gives the same merge.)
CostOfChild(new_bounds, c) == half_perimeter(merge(new_bounds, nodes[c].bounds))

\* C14: at every internal node the latest insert visited, the descent went to
\* the left child iff the left cost was strictly smaller, to the right child
\* otherwise (ties too), and the child it did not choose is the one handed to
\* collect_max_ordering.
DescentFollowsHeuristic ==
    last.descent = "leaf" =>
        LET new_bounds == inserted[Len(inserted)].bounds
            trace == last.did.trace
            path == last.did.path
        IN /\ Len(trace) = Len(path)
           /\ \A k \in 1..Len(trace) :
                LET s == trace[k]
                    left_cost == CostOfChild(new_bounds, s.left)
                    right_cost == CostOfChild(new_bounds, s.right)
                    next == IF k < Len(path) THEN path[k + 1] ELSE last.did.sibling
                IN /\ s.node = path[k]
                   /\ s.chosen = next
                   /\ (left_cost < right_cost) => (s.chosen = s.left /\ s.collected = s.right)
                   /\ (left_cost >= right_cost) => (s.chosen = s.right /\ s.collected = s.left)
                   /\ s.left # s.right

\* C14 witness: the fourth insert went left at the root on a strictly smaller
\* cost and right at the next node on a tie.
WentLeftThenRightOnTie ==
    /\ Len(inserted) = 4
    /\ Len(last.did.trace) = 2
    /\ CostOfChild(inserted[4].bounds, last.did.trace[1].left)
          < CostOfChild(inserted[4].bounds, last.did.trace[1].right)
    /\ last.did.trace[1].chosen = last.did.trace[1].left
    /\ CostOfChild(inserted[4].bounds, last.did.trace[2].left)
          = CostOfChild(inserted[4].bounds, last.did.trace[2].right)
    /\ last.did.trace[2].chosen = last.did.trace[2].right

\* ---------------------------------------------------------------- C15
\* The children of the internal node at index i are the same before and after.
SameChildren(i) ==
    nodes'[i].left = nodes[i].left /\ nodes'[i].right = nodes[i].right

\* An insert into a non-empty tree: two nodes are appended, the new leaf and
\* then an internal node with sibling (a leaf) on the left and the new leaf on
\* the right; it takes sibling's place under sibling's parent, on the same
\* side, the other side unchanged, or becomes the root when sibling was the
\* root; no other node's children change.
AttachStep ==
    (root # NoRoot /\ nodes' # nodes) =>
        LET n == Len(nodes)
            sibling == last'.did.sibling
            parents == { i \in InternalIndices :
                            nodes[i].left = sibling \/ nodes[i].right = sibling }
        IN /\ Len(nodes') = n + 2
           /\ sibling \in LeafIndices
           /\ nodes'[n + 1].kind = "Leaf"
           /\ nodes'[n + 1].bounds = inserted'[Len(inserted')].bounds
           /\ nodes'[n + 2].kind = "Internal"
           /\ nodes'[n + 2].left = sibling
           /\ nodes'[n + 2].right = n + 1
           /\ last'.did.new_node = n + 1
           /\ last'.did.new_parent = n + 2
           /\ IF sibling = root
              THEN root' = n + 2 /\ parents = {}
              ELSE /\ root' = root
                   /\ Cardinality(parents) = 1
                   /\ \A p \in parents :
                         IF nodes[p].left = sibling
                         THEN nodes'[p].left = n + 2 /\ nodes'[p].right = nodes[p].right
                         ELSE nodes'[p].right = n + 2 /\ nodes'[p].left = nodes[p].left
           /\ \A i \in InternalIndices : i \notin parents => SameChildren(i)

\* C15: every insert into a non-empty tree attaches the new leaf this way.
AttachReplacesSibling == [][AttachStep]_vars

\* C15 witness: the fourth insert put the new internal node in the place of a
\* right child, under a node that is the root's left child; the new node holds
\* the located leaf on the left and the new leaf on the right.
SplicedIntoRightSide ==
    /\ Len(inserted) = 4
    /\ Len(last.did.path) = 2
    /\ nodes[last.did.path[1]].left = last.did.path[2]
    /\ nodes[last.did.path[2]].right = last.did.new_parent
    /\ nodes[last.did.new_parent].left = last.did.sibling
    /\ nodes[last.did.new_parent].right = last.did.new_node

\* ---------------------------------------------------------------- C16
LeafOrders == { nodes[i].order : i \in LeafIndices }

\* C16: after n >= 1 inserts the orders held by the leaves are exactly 1..m
\* for some m <= n; the i-th insert returned a value in 1..i; a value k > 1 was
\* returned only when an earlier shape of order k - 1 intersects the new one.
OrdersAreGapFree ==
    Len(inserted) >= 1 =>
        /\ \E m \in 1..Len(inserted) : LeafOrders = 1..m
        /\ \A i \in 1..Len(inserted) :
              /\ inserted[i].order \in 1..i
              /\ inserted[i].order > 1 =>
                    \E j \in 1..(i - 1) :
                        /\ inserted[j].order = inserted[i].order - 1
                        /\ intersects(inserted[j].bounds, inserted[i].bounds)

\* C16 witness: four inserts used the orders 1, 2 and 3 only; the last one
\* returned 3, below the number of shapes, and two leaves share an order.
OrdersOneToThreeOfFour ==
    /\ Len(inserted) = 4
    /\ LeafOrders = 1..3
    /\ last.ordering = 3
    /\ last.descent = "leaf"

====
